---- MODULE Spec2Model ----
(***************************************************************************)
(* A model of src/waveform.ts: the waveform widget APWaveForm (its drag    *)
(* handlers, its property setters and its draw function) and the peaks     *)
(* generator APPeaksGenerator (restart, generate_peaks_async and the bus   *)
(* message handler of each pipeline it launches).                          *)
(*                                                                         *)
(* JavaScript numbers are modelled as fixed-point values: a finite number  *)
(* x is Num(n) with x = n / Unit, and NaN, +Infinity and -Infinity are     *)
(* values of their own.  Unit is chosen so that every quotient the drag    *)
(* handler forms is exact.                                                 *)
(***************************************************************************)
EXTENDS Integers, Naturals, Sequences, FiniteSets, TLC

\* ------------------------------------------------------------------ bounds

\* Longest peak array handed to the widget.
MaxPeaks == 3
\* Largest horizontal drag offset, in pixels, in either direction.
MaxOffset == 13
\* Most drag-begin events, and most drag-end events, of one run.
MaxGestures == 1
\* Widest drawing area, in pixels.
MaxWidth == 12
\* Tallest drawing area, in pixels.
MaxHeight == 1
\* Most pipelines launched in one run.
MaxPipelines == 2
\* Most level messages delivered in one run, over all pipelines.
MaxSamples == 3
\* Longest duration of a track, in whole intervals.
MaxBuckets == 3

\* --------------------------------------------------------- program constants

GUTTER == 4

INTERVAL == 100000000

\* ------------------------------------------------------------------ numbers

RECURSIVE Gcd(_, _)
Gcd(a, b) == IF b = 0 THEN a ELSE Gcd(b, a % b)

RECURSIVE LcmUpTo(_)
LcmUpTo(n) == IF n <= 1 THEN 1 ELSE (n * LcmUpTo(n - 1)) \div Gcd(n, LcmUpTo(n - 1))

\* The fixed-point denominator: 1.0 is Num(Unit).  Half pixels and every
\* offset_x / (length * GUTTER) with length in 1..MaxPeaks are whole multiples
\* of 1 / Unit.
Unit == 2 * GUTTER * LcmUpTo(MaxPeaks)

Num(n) == [kind |-> "num", v |-> n]
NaN == [kind |-> "nan", v |-> 0]
PosInf == [kind |-> "inf", v |-> 1]
NegInf == [kind |-> "inf", v |-> -1]
Null == [kind |-> "null", v |-> 0]

\* A whole number of pixels (or the number 1) as a number.
Px(n) == Num(n * Unit)

\* a < b on numbers: false as soon as one side is NaN.
JsLt(a, b) ==
  IF a.kind = "nan" \/ b.kind = "nan" THEN FALSE
  ELSE IF a.kind = "inf" THEN a.v < 0 /\ ~(b.kind = "inf" /\ b.v < 0)
  ELSE IF b.kind = "inf" THEN b.v > 0
  ELSE a.v < b.v

\* a - b on numbers.
JsSub(a, b) ==
  IF a.kind = "nan" \/ b.kind = "nan" THEN NaN
  ELSE IF a.kind = "inf" /\ b.kind = "inf" THEN (IF a.v = b.v THEN NaN ELSE a)
  ELSE IF a.kind = "inf" THEN a
  ELSE IF b.kind = "inf" THEN (IF b.v > 0 THEN NegInf ELSE PosInf)
  ELSE Num(a.v - b.v)

\* a / n for a number a and a whole, non-negative count n (a product of an array
\* length and GUTTER): a division by zero gives NaN or an infinity.
JsDivCount(a, n) ==
  IF a.kind = "nan" THEN NaN
  ELSE IF n = 0 THEN
    (IF a.kind = "inf" THEN a
     ELSE IF a.v = 0 THEN NaN
     ELSE IF a.v > 0 THEN PosInf ELSE NegInf)
  ELSE IF a.kind = "inf" THEN a
  ELSE Num(a.v \div n)

\* a * n for a number a and a whole, non-negative count n.
JsMulCount(a, n) ==
  IF a.kind = "nan" THEN NaN
  ELSE IF a.kind = "inf" THEN (IF n = 0 THEN NaN ELSE a)
  ELSE Num(a.v * n)

\* Math.min and Math.max: NaN as soon as one argument is NaN.
MathMin(a, b) ==
  IF a.kind = "nan" \/ b.kind = "nan" THEN NaN
  ELSE IF JsLt(b, a) THEN b ELSE a

MathMax(a, b) ==
  IF a.kind = "nan" \/ b.kind = "nan" THEN NaN
  ELSE IF JsLt(a, b) THEN b ELSE a

\* a + b and -a on numbers.
JsNeg(a) == IF a.kind = "nan" THEN NaN ELSE [kind |-> a.kind, v |-> -a.v]

JsAdd(a, b) == JsSub(a, JsNeg(b))

\* Math.floor.
MathFloor(a) == IF a.kind = "num" THEN Num((a.v \div Unit) * Unit) ELSE a

\* Math.pow(10, peak / 20) for the level values of Levels, in hundredths:
\* -40 dB is 0.01, -20 dB is 0.1 and 0 dB is 1.0.
RECURSIVE Pow10(_)
Pow10(k) == IF k = 0 THEN 1 ELSE 10 * Pow10(k - 1)

Levels == {-20, 0}

DbToLinear(peak) == Pow10((peak + 40) \div 20)

\* The peak value 1.0, and one pixel of a vertical coordinate: a bar's ends are
\* vertiCenter +- peak * height, kept in units of half a hundredth of a pixel.
PeakUnit == Pow10(2)
YUnit == 2 * PeakUnit

\* ---------------------------------------------------------------- the state

VARIABLES
  wf_peaks,             \* APWaveForm._peaks
  wf_position,          \* APWaveForm._position
  drag_start_position,  \* APWaveForm.drag_start_position
  dragged,              \* the position the last dragUpdate since dragBegin wrote
  beginCount,           \* drag-begin events handled so far
  changedCount,         \* position-changed events emitted so far
  width,                \* the width handed to the draw function
  height,               \* the height handed to the draw function
  drawn,                \* what the last draw function call put on the surface
  loadedPeaks,          \* APPeaksGenerator.loadedPeaks
  gen_peaks,            \* APPeaksGenerator._peaks
  started,              \* APPeaksGenerator.started
  pipelines,            \* the pipelines launched: state, duration, messages sent
  throttle,             \* the timer of throttled_notify_peaks
  sinceRestart,         \* the bus messages handled since the last restart()
  held,                 \* the array a reader of the peaks property holds
  last,                 \* the handler that ran last, and what it was given
  emitted,              \* the signals the handler that ran last emitted
  queued                \* whether the handler that ran last called queue_draw

wfVars == <<wf_peaks, wf_position, drag_start_position, dragged>>
countVars == <<beginCount, changedCount>>
drawVars == <<width, height, drawn>>
genVars == <<loadedPeaks, gen_peaks, started, pipelines, throttle, sinceRestart, held>>
vars == <<wf_peaks, wf_position, drag_start_position, dragged, beginCount, changedCount,
          width, height, drawn, loadedPeaks, gen_peaks, started, pipelines,
          throttle, sinceRestart, held, last, emitted, queued>>

NoDrawing == [divider |-> Null, skipped |-> 0, bars |-> <<>>]

Signal(name, arg) == [sig |-> name, arg |-> arg]

\* A record of the handler that ran: its name, its numeric argument (Null when
\* it has none) and whether a drag was in progress when it was called.
Handler(name, arg, dragging) == [op |-> name, arg |-> arg, dragging |-> dragging]

IsDragging == drag_start_position.kind # "null"

\* The peak arrays the widget is given: one of each length.
PeakArray(n) == [i \in 1..n |-> DbToLinear(-20 * (i % 3))]

\* -------------------------------------------------------- APPeaksGenerator

\* The durations a track is given: none (not positive), exactly one interval,
\* and for each number of intervals from 2 to MaxBuckets one that just exceeds
\* the interval before it.
Durations ==
  {0, INTERVAL}
    \cup {(k - 1) * INTERVAL + 1 : k \in 2..MaxBuckets}

NoPipeline == [state |-> "none", duration |-> 0]

\* The array object a reader got from the peaks getter: whether it is still the
\* object this._peaks refers to, its contents when it was read, and its
\* contents now.
NoReference == [some |-> FALSE, live |-> FALSE, taken |-> <<>>, value |-> <<>>]

\* The reader's array after this._peaks is assigned a new array: the object held
\* is no longer the generator's, and keeps its contents.
HeldAfterAssign == [held EXCEPT !.live = FALSE]

\* The reader's array after this.peaks.length = 0: the generator's array object
\* is emptied in place, and with it the reader's when it is the same object.
HeldAfterTruncate == IF held.live THEN [held EXCEPT !.value = <<>>] ELSE held

\* A pipeline set to Gst.State.NULL posts no further message: the duration its
\* handler holds is never read again.
StoppedPipeline == [state |-> "NULL", duration |-> 0]

\* The fields of a new generator: no peaks, not started, no pipeline, and the
\* throttle's timer not running.
GeneratorInit ==
  /\ loadedPeaks = <<>>
  /\ gen_peaks = <<>>
  /\ started = FALSE
  /\ pipelines = [pid \in 1..MaxPipelines |-> NoPipeline]
  /\ throttle = [armed |-> FALSE, pending |-> FALSE]
  /\ sinceRestart = <<>>
  /\ held = NoReference

\* A record of the generator's handler that ran: its name, the duration its
\* pipeline was launched with, and whether it ended by throwing.
GenHandler(name, duration, threw) == [op |-> name, duration |-> duration, threw |-> threw]

\* The level messages among the bus messages handled since the last restart().
LevelsOf(log) == SelectSeq(log, LAMBDA m : m.type = "level")

SamplesHandled == Len(LevelsOf(sinceRestart))

\* The converted peaks of a sequence of level messages, in order.
Converted(log) == [i \in 1..Len(log) |-> DbToLinear(log[i].peak)]

Zeros(n) == [i \in 1..n |-> 0]

\* restart() without the truncation of loadedPeaks.
RestartKeepsLoaded == [started |-> TRUE, loadedPeaks |-> loadedPeaks, peaks |-> <<>>]

\* restart() without the truncation of the visible peaks.
RestartKeepsVisible == [started |-> TRUE, loadedPeaks |-> <<>>, peaks |-> gen_peaks]

\* restart() with the started flag flipped instead of set.
RestartToggles == [started |-> ~started, loadedPeaks |-> <<>>, peaks |-> <<>>]

\* restart(): marks the generator started and empties both arrays.
RestartState == [started |-> TRUE, loadedPeaks |-> <<>>, peaks |-> <<>>]

restart ==
  /\ started' = RestartState.started
  /\ loadedPeaks' = RestartState.loadedPeaks
  /\ gen_peaks' = RestartState.peaks
  /\ sinceRestart' = <<>>
  /\ held' = HeldAfterTruncate
  /\ emitted' = <<>>
  /\ queued' = FALSE
  /\ last' = GenHandler("restart", 0, FALSE)
  /\ UNCHANGED <<pipelines, throttle, wfVars, countVars, drawVars>>

\* generate_peaks_async with a call of restart() at its start.
LaunchResets == [started |-> TRUE, loadedPeaks |-> <<>>, peaks |-> <<>>]

\* What generate_peaks_async does to the generator's own fields.
LaunchState == [started |-> started, loadedPeaks |-> loadedPeaks, peaks |-> gen_peaks]

\* generate_peaks_async(uri, duration): launches a pipeline and watches its bus.
generate_peaks_async ==
  \E duration \in Durations :
    \E pid \in 1..MaxPipelines :
      /\ pipelines[pid].state = "none"
      /\ \A q \in 1..(pid - 1) : pipelines[q].state # "none"
      /\ pipelines' = [pipelines EXCEPT ![pid] = [state |-> "PLAYING", duration |-> duration]]
      /\ started' = LaunchState.started
      /\ loadedPeaks' = LaunchState.loadedPeaks
      /\ gen_peaks' = LaunchState.peaks
      /\ emitted' = <<>>
      /\ queued' = FALSE
      /\ last' = GenHandler("generate_peaks_async", duration, FALSE)
      /\ UNCHANGED <<throttle, sinceRestart, held, wfVars, countVars, drawVars>>

\* Math.ceil(duration / INTERVAL).
PeaksNumber(duration) == -((0 - duration) \div INTERVAL)

\* The remaining peaks without the subtraction of the peaks loaded.
RemainingOfAll(loaded, duration) == PeaksNumber(duration)

\* peaks_number - loadedPeaks.length, after the push.
RemainingPeaks(loaded, duration) == PeaksNumber(duration) - Len(loaded)

\* new Array(n) throws a RangeError for a negative n.
ArrayThrows(n) == n < 0

\* [...loadedPeaks, ...new Array(remaining_peaks).fill(0)]
InterimPeaks(loaded, duration) == loaded \o Zeros(RemainingPeaks(loaded, duration))

\* The level branch without its test of the duration.
ComputesInterimAlways(duration) == TRUE

\* Whether the level branch computes an interim array for this duration.
ComputesInterim(duration) == duration > 0

\* throttled_notify_peaks(): notifies at once when the timer is not running and
\* starts it; while it runs, the call is kept for the timer.
ThrottleCall == IF throttle.armed
                THEN [armed |-> TRUE, pending |-> TRUE]
                ELSE [armed |-> TRUE, pending |-> FALSE]

ThrottleNotifies == ~throttle.armed

\* The element messages a pipeline posts: the level element's, with or without
\* a peak value, and those of other elements.
ElementMessages ==
  {[name |-> "level", hasPeak |-> TRUE, peak |-> l] : l \in Levels}
    \cup {[name |-> "level", hasPeak |-> FALSE, peak |-> 0],
          [name |-> "other", hasPeak |-> FALSE, peak |-> 0]}

\* The bus handler on an ELEMENT message of a pipeline.
busElement ==
  \E pid \in 1..MaxPipelines :
    \E msg \in ElementMessages :
      LET duration == pipelines[pid].duration
          loaded == Append(loadedPeaks, DbToLinear(msg.peak))
      IN /\ pipelines[pid].state = "PLAYING"
         /\ SamplesHandled < MaxSamples
         /\ queued' = FALSE
         /\ IF msg.name = "level" /\ msg.hasPeak
            THEN /\ loadedPeaks' = loaded
                 /\ sinceRestart' = Append(sinceRestart, [type |-> "level", peak |-> msg.peak])
                 /\ IF ComputesInterim(duration)
                    THEN IF ArrayThrows(RemainingPeaks(loaded, duration))
                         THEN /\ gen_peaks' = gen_peaks
                              /\ held' = held
                              /\ throttle' = throttle
                              /\ emitted' = <<>>
                              /\ last' = GenHandler("level", duration, TRUE)
                         ELSE /\ gen_peaks' = InterimPeaks(loaded, duration)
                              /\ held' = HeldAfterAssign
                              /\ throttle' = ThrottleCall
                              /\ emitted' = IF ThrottleNotifies
                                            THEN <<Signal("notify::peaks", Null)>>
                                            ELSE <<>>
                              /\ last' = GenHandler("level", duration, FALSE)
                    ELSE /\ gen_peaks' = gen_peaks
                         /\ held' = held
                         /\ throttle' = throttle
                         /\ emitted' = <<>>
                         /\ last' = GenHandler("level", duration, FALSE)
            ELSE /\ UNCHANGED <<loadedPeaks, gen_peaks, throttle, sinceRestart, held>>
                 /\ emitted' = <<>>
                 /\ last' = GenHandler("element", duration, FALSE)
         /\ UNCHANGED <<started, pipelines, wfVars, countVars, drawVars>>

\* The EOS branch without its test of the started flag.
PublishesAlways == TRUE

\* Whether the EOS branch publishes the loaded peaks.
PublishesAtEos == started

\* The bus handler on the EOS message of a pipeline.
busEos ==
  \E pid \in 1..MaxPipelines :
    /\ pipelines[pid].state = "PLAYING"
    /\ IF PublishesAtEos
       THEN /\ gen_peaks' = loadedPeaks
            /\ held' = HeldAfterAssign
            /\ emitted' = <<Signal("notify::peaks", Null)>>
       ELSE /\ gen_peaks' = gen_peaks
            /\ held' = held
            /\ emitted' = <<>>
    /\ loadedPeaks' = <<>>
    /\ pipelines' = [pipelines EXCEPT ![pid] = StoppedPipeline]
    /\ sinceRestart' = Append(sinceRestart, [type |-> "eos", peak |-> 0])
    /\ queued' = FALSE
    /\ last' = GenHandler("eos", pipelines[pid].duration, FALSE)
    /\ UNCHANGED <<started, throttle, wfVars, countVars, drawVars>>

\* The throttle's timer running out: it notifies and starts again when a call
\* was kept, and stops otherwise.
throttleTimer ==
  /\ throttle.armed
  /\ throttle' = [armed |-> throttle.pending, pending |-> FALSE]
  /\ emitted' = IF throttle.pending THEN <<Signal("notify::peaks", Null)>> ELSE <<>>
  /\ queued' = FALSE
  /\ last' = GenHandler("throttle timer", 0, FALSE)
  /\ UNCHANGED <<loadedPeaks, gen_peaks, started, pipelines, sinceRestart, held,
                 wfVars, countVars, drawVars>>

\* get peaks: a reader of the property gets the array object this._peaks
\* refers to, and keeps it.
readPeaks ==
  /\ held' = [some |-> TRUE, live |-> TRUE, taken |-> gen_peaks, value |-> gen_peaks]
  /\ emitted' = <<>>
  /\ queued' = FALSE
  /\ last' = GenHandler("get peaks", 0, FALSE)
  /\ UNCHANGED <<loadedPeaks, gen_peaks, started, pipelines, throttle, sinceRestart,
                 wfVars, countVars, drawVars>>

GenInit ==
  /\ GeneratorInit
  /\ wf_peaks = <<>>
  /\ wf_position = Num(0)
  /\ drag_start_position = Null
  /\ dragged = Null
  /\ beginCount = 0
  /\ changedCount = 0
  /\ width = 0
  /\ height = 0
  /\ drawn = NoDrawing
  /\ emitted = <<>>
  /\ queued = FALSE
  /\ last = GenHandler("constructor", 0, FALSE)

GenNext ==
  \/ restart
  \/ generate_peaks_async
  \/ busElement
  \/ busEos
  \/ throttleTimer

\* The generator under restart(), generate_peaks_async() and the bus messages
\* of the pipelines launched.
SpecGen == GenInit /\ [][GenNext]_vars

AliasNext ==
  \/ GenNext
  \/ readPeaks

\* The generator with a reader that keeps the array the peaks property gave it.
SpecAlias == GenInit /\ [][AliasNext]_vars

\* ------------------------------------------------------------- APWaveForm

\* The constructor: no peaks, position 0, no drag in progress.
WaveFormInit ==
  /\ wf_peaks = <<>>
  /\ wf_position = Num(0)
  /\ drag_start_position = Null
  /\ dragged = Null
  /\ beginCount = 0
  /\ changedCount = 0
  /\ emitted = <<>>
  /\ queued = FALSE
  /\ last = Handler("constructor", Null, FALSE)

\* dragBegin: captures the position and emits gesture-pressed.
dragBegin ==
  /\ beginCount < MaxGestures
  /\ drag_start_position' = wf_position
  /\ dragged' = Null
  /\ emitted' = <<Signal("gesture-pressed", Null)>>
  /\ beginCount' = beginCount + 1
  /\ queued' = FALSE
  /\ last' = Handler("dragBegin", Null, IsDragging)
  /\ UNCHANGED <<wf_peaks, wf_position, changedCount, drawVars, genVars>>

\* The position computed with the offset added to the start position.
DragPositionAdded(start, offset_x, length) ==
  LET after == JsAdd(start, JsDivCount(offset_x, length * GUTTER))
  IN MathMax(MathMin(after, Px(1)), Num(0))

\* The position dragUpdate computes from the captured start position.
DragPosition(start, offset_x, length) ==
  LET after == JsSub(start, JsDivCount(offset_x, length * GUTTER))
  IN MathMax(MathMin(after, Px(1)), Num(0))

\* The test of dragUpdate taken as always passed.
UpdateAppliesAlways == TRUE

\* The test of dragUpdate: this.drag_start_position != null.
UpdateApplies == drag_start_position.kind # "null"

\* dragUpdate: moves the position while a drag is in progress.
dragUpdate ==
  \E px \in -MaxOffset..MaxOffset :
    /\ IF UpdateApplies
       THEN /\ wf_position' = DragPosition(drag_start_position, Px(px), Len(wf_peaks))
            /\ dragged' = wf_position'
            /\ queued' = TRUE
       ELSE /\ wf_position' = wf_position
            /\ dragged' = dragged
            /\ queued' = FALSE
    /\ emitted' = <<>>
    /\ last' = Handler("dragUpdate", Px(px), IsDragging)
    /\ UNCHANGED <<wf_peaks, drag_start_position, countVars, drawVars, genVars>>

\* dragEnd: forgets the start position and emits position-changed.
dragEnd ==
  /\ changedCount < MaxGestures
  /\ drag_start_position' = Null
  /\ dragged' = dragged
  /\ emitted' = <<Signal("position-changed", wf_position)>>
  /\ changedCount' = changedCount + 1
  /\ queued' = FALSE
  /\ last' = Handler("dragEnd", Null, IsDragging)
  /\ UNCHANGED <<wf_peaks, wf_position, beginCount, drawVars, genVars>>

\* set peaks: stores a copy of the array and asks for a redraw.
SetPeaks ==
  \E n \in 0..MaxPeaks :
    /\ wf_peaks' = PeakArray(n)
    /\ queued' = TRUE
    /\ emitted' = <<>>
    /\ last' = Handler("set peaks", Null, IsDragging)
    /\ UNCHANGED <<wf_position, drag_start_position, dragged, countVars, drawVars, genVars>>

\* The positions written through the property: the quarters of [0, 1].
PositionWrites == {Num((k * Unit) \div 4) : k \in 0..4}

\* The setter without its notify.
PositionSetSilent == <<>>

\* The signals of the position setter: this.notify("position").
PositionSetSignals == <<Signal("notify::position", Null)>>

\* set position: stores the value, asks for a redraw and notifies.
SetPosition ==
  \E pos \in PositionWrites :
    /\ wf_position' = pos
    /\ queued' = TRUE
    /\ emitted' = PositionSetSignals
    /\ last' = Handler("set position", pos, IsDragging)
    /\ UNCHANGED <<wf_peaks, drag_start_position, dragged, countVars, drawVars, genVars>>

\* Array.prototype.slice's start index for the argument invisible_peaks / GUTTER
\* (a number >= 0): its integer part, at most the length.
SliceStart(invisible_peaks, length) ==
  IF invisible_peaks.kind = "nan" THEN 0
  ELSE IF invisible_peaks.kind = "inf" THEN length
  ELSE LET q == (invisible_peaks.v \div Unit) \div GUTTER
       IN IF q > length THEN length ELSE q

\* The pointer of the first peak without the factor GUTTER.
InitialPointerNoGutter(position, length, w) ==
  JsSub(Num((w * Unit) \div 2), JsMulCount(position, length))

\* The pointer of the first peak: horizCenter - position * length * GUTTER.
InitialPointer(position, length, w) ==
  JsSub(Num((w * Unit) \div 2), JsMulCount(JsMulCount(position, length), GUTTER))

\* The number of pixels the draw function moves a negative pointer by.
InvisiblePeaks(pointer) ==
  IF JsLt(pointer, Num(0)) THEN JsNeg(MathFloor(pointer)) ELSE Num(0)

\* The loop's stop one bar late.
PastRightEdgeLate(pointer, w) == JsLt(Px(w + GUTTER), pointer)

\* Whether the loop stops at this pointer: the bar would be right of the view.
PastRightEdge(pointer, w) == JsLt(Px(w), pointer)

\* The colour test with the centre counted to the right zone.
BarColorCenterRight(pointer, horizCenter) ==
  IF JsLt(pointer, horizCenter) THEN "left" ELSE "right"

\* The colour of the bar at this pointer.
BarColor(pointer, horizCenter) ==
  IF JsLt(horizCenter, pointer) THEN "right" ELSE "left"

\* The loop over the peaks from index i (counted from 0) on: the bars it draws.
RECURSIVE DrawLoop(_, _, _, _, _)
DrawLoop(peaks, i, pointer, w, h) ==
  IF i >= Len(peaks) THEN <<>>
  ELSE IF JsLt(pointer, Num(0)) THEN DrawLoop(peaks, i + 1, JsAdd(pointer, Px(GUTTER)), w, h)
  ELSE IF PastRightEdge(pointer, w) THEN <<>>
  ELSE <<[x |-> pointer,
          from |-> (h * YUnit) \div 2 + 2 * peaks[i + 1] * h,
          to |-> (h * YUnit) \div 2 - 2 * peaks[i + 1] * h,
          color |-> BarColor(pointer, Num((w * Unit) \div 2)),
          index |-> i]>>
       \o DrawLoop(peaks, i + 1, JsAdd(pointer, Px(GUTTER)), w, h)

\* One call of the draw function: the divider, then the bars.
Draw(peaks, position, w, h, accentFound) ==
  LET pointer0 == InitialPointer(position, Len(peaks), w)
      invisible_peaks == InvisiblePeaks(pointer0)
      pointer == IF JsLt(pointer0, Num(0)) THEN JsAdd(pointer0, invisible_peaks) ELSE pointer0
      first == SliceStart(invisible_peaks, Len(peaks))
  IN [divider |-> [x |-> Num((w * Unit) \div 2),
                   from |-> (h * YUnit) \div 2 - h * YUnit,
                   to |-> (h * YUnit) \div 2 + h * YUnit,
                   color |-> IF accentFound THEN "accent_color" ELSE "foreground"],
      skipped |-> first,
      bars |-> DrawLoop(peaks, first, pointer, w, h)]

\* drawFunc, called by the toolkit with the widget's size.
drawFunc ==
  \E accentFound \in BOOLEAN :
    /\ drawn' = Draw(wf_peaks, wf_position, width, height, accentFound)
    /\ emitted' = <<>>
    /\ queued' = FALSE
    /\ last' = Handler("drawFunc", Null, IsDragging)
    /\ UNCHANGED <<wfVars, countVars, width, height, genVars>>

DragInit ==
  /\ WaveFormInit
  /\ width = 0
  /\ height = 0
  /\ drawn = NoDrawing
  /\ GeneratorInit

DragNext ==
  \/ dragBegin
  \/ dragUpdate
  \/ dragEnd
  \/ SetPeaks
  \/ SetPosition

\* The widget under gesture events and property writes.
SpecDrag == DragInit /\ [][DragNext]_vars

\* The draw function on every widget state with a position in [0, 1]: each
\* array length up to MaxPeaks, each position that is a multiple of 1 / Unit,
\* each size up to MaxWidth x MaxHeight, and the ten-peak array at position 0.5
\* in a view 100 pixels wide.
DrawInit ==
  /\ \/ /\ wf_peaks \in {PeakArray(n) : n \in 0..MaxPeaks}
        /\ wf_position \in {Num(k) : k \in 0..Unit}
        /\ width \in 0..MaxWidth
        /\ height \in 0..MaxHeight
     \/ /\ wf_peaks = PeakArray(10)
        /\ wf_position = Num(Unit \div 2)
        /\ width = 100
        /\ height \in 0..MaxHeight
  /\ drag_start_position = Null
  /\ dragged = Null
  /\ beginCount = 0
  /\ changedCount = 0
  /\ drawn = NoDrawing
  /\ GeneratorInit
  /\ emitted = <<>>
  /\ queued = FALSE
  /\ last = Handler("constructor", Null, FALSE)

DrawNext == drawFunc

\* The draw function as a function of the widget's state and size.
SpecDraw == DrawInit /\ [][DrawNext]_vars

\* -------------------------------------------------- claims: the generator

\* Math.ceil(duration / INTERVAL) for a duration > 0, as the least count of
\* intervals that covers the duration.
CeilIntervals(duration) ==
  CHOOSE n \in 1..(MaxBuckets + 1) :
    n * INTERVAL >= duration /\ (n - 1) * INTERVAL < duration

\* restart() has been called and the bus messages handled since are n level
\* messages and then one end of stream.
RestartSamplesEos(n) ==
  /\ started
  /\ Len(sinceRestart) = n + 1
  /\ sinceRestart[n + 1].type = "eos"
  /\ \A i \in 1..n : sinceRestart[i].type = "level"

\* The level messages handled since the last end of stream and the last
\* restart().
RECURSIVE SinceLastEos(_)
SinceLastEos(log) ==
  IF log = <<>> \/ log[Len(log)].type = "eos" THEN <<>>
  ELSE Append(SinceLastEos(SubSeq(log, 1, Len(log) - 1)), log[Len(log)])

\* C3: after restart(), N level messages and the end of stream, the visible
\* peaks are the N converted samples in arrival order, whatever the duration.
C3_CommitLaw ==
  \A n \in 0..MaxSamples :
    (last.op = "eos" /\ RestartSamplesEos(n)) =>
      /\ Len(gen_peaks) = n
      /\ \A i \in 1..n : gen_peaks[i] = DbToLinear(sinceRestart[i].peak)

\* An end of stream after restart() and more samples than the duration has
\* intervals.
C3_CommitPastDuration ==
  /\ last.op = "eos"
  /\ last.duration > 0
  /\ \E n \in 1..MaxSamples : RestartSamplesEos(n) /\ n > CeilIntervals(last.duration)

\* C4: every interim array the level branch publishes for a duration > 0 has
\* exactly ceil(duration / INTERVAL) entries, whatever the number of samples.
C4_InterimLength ==
  (last.op = "level" /\ last.duration > 0 /\ ~last.threw) =>
    Len(gen_peaks) = CeilIntervals(last.duration)

\* An interim array published with a second sample loaded and padding left.
C4_InterimPadded ==
  /\ last.op = "level"
  /\ last.duration > 0
  /\ ~last.threw
  /\ Len(loadedPeaks) = 2
  /\ Len(loadedPeaks) < Len(gen_peaks)

\* C5 as stated: right after generate_peaks_async the generator is started and
\* both arrays are empty.
C5_StartResets ==
  last.op = "generate_peaks_async" =>
    /\ started
    /\ loadedPeaks = <<>>
    /\ gen_peaks = <<>>

\* C5 as amended: generate_peaks_async leaves the started flag, the loaded
\* peaks and the visible peaks as they were before the call.
C5_StartKeepsState ==
  [][last'.op = "generate_peaks_async" =>
       /\ started' = started
       /\ loadedPeaks' = loadedPeaks
       /\ gen_peaks' = gen_peaks]_vars

\* generate_peaks_async has returned with peaks loaded and visible from before.
C5_StartOverLoadedPeaks ==
  /\ last.op = "generate_peaks_async"
  /\ loadedPeaks # <<>>
  /\ gen_peaks # <<>>

\* C6: right after restart(), in any state, the generator is started and both
\* arrays are empty, and from then on the loaded peaks are samples received
\* after that restart.
C6_RestartClears ==
  /\ last.op = "restart" => (started /\ loadedPeaks = <<>> /\ gen_peaks = <<>>)
  /\ started => loadedPeaks = Converted(SinceLastEos(sinceRestart))

\* restart() called while the only pipeline launched has had a sample handled
\* and is still playing.
C6_RestartMidStream ==
  /\ last.op = "restart"
  /\ pipelines[1].state = "PLAYING"
  /\ pipelines[1].duration > 0
  /\ \A pid \in 2..MaxPipelines : pipelines[pid].state = "none"
  /\ throttle.armed

\* C7: the end of stream replaces the visible peaks by the loaded peaks and
\* notifies at once, without the throttle, exactly when the generator was
\* started; otherwise the visible peaks stay and nothing is notified; the
\* loaded peaks are empty afterwards either way.
C7_EosPublishesIffStarted ==
  [][last'.op = "eos" =>
       /\ loadedPeaks' = <<>>
       /\ throttle' = throttle
       /\ IF started
          THEN /\ gen_peaks' = loadedPeaks
               /\ emitted' = <<Signal("notify::peaks", Null)>>
          ELSE /\ gen_peaks' = gen_peaks
               /\ emitted' = <<>>]_vars

\* An end of stream of a started generator published while the throttle's
\* timer was running.
C7_EosWhileThrottled ==
  /\ last.op = "eos"
  /\ started
  /\ throttle.armed
  /\ gen_peaks # <<>>
  /\ emitted # <<>>

\* An end of stream of a generator that was never started, with peaks visible.
C7_EosNotStarted ==
  /\ last.op = "eos"
  /\ ~started
  /\ gen_peaks # <<>>
  /\ emitted = <<>>

\* ------------------------------------------------------- claims: the drag

\* Whether the handler that ran last emitted a position-changed signal.
EmittedPositionChanged == \E i \in 1..Len(emitted) : emitted[i].sig = "position-changed"

\* C1: a drag end handled while no drag is in progress emits no
\* position-changed signal, and the position-changed signals emitted never
\* outnumber the drag-begin events handled.
C1_IdleEndEmitsNothing ==
  /\ (last.op = "dragEnd" /\ ~last.dragging) => ~EmittedPositionChanged
  /\ changedCount <= beginCount

\* A drag end handled while no drag was in progress.
C1_IdleEndHandled == last.op = "dragEnd" /\ ~last.dragging

\* C2: after every drag update handled during a drag, whatever the offset and
\* the number of peaks, the position is a number between 0 and 1.
C2_PositionInUnitInterval ==
  (last.op = "dragUpdate" /\ last.dragging) =>
    /\ wf_position.kind = "num"
    /\ 0 <= wf_position.v
    /\ wf_position.v <= Unit

\* A drag update handled during a drag over an empty peak array.
C2_UpdateOverNoPeaks == last.op = "dragUpdate" /\ last.dragging /\ wf_peaks = <<>>

\* ------------------------------------------------- claims: the draw function

\* The pointer of peak 0 in the state drawn, horizCenter - position * length *
\* GUTTER, in units of 1 / Unit (the position is a finite number here).
P0 == (width * Unit) \div 2 - wf_position.v * Len(wf_peaks) * GUTTER

\* The x coordinate of the peak of index i when peak 0 is at P0.
XOf(i) == P0 + i * GUTTER * Unit

\* The smallest s >= 0 with P0 + s * GUTTER >= 0.
LeastVisible == IF P0 >= 0 THEN 0 ELSE -(P0 \div (GUTTER * Unit))

\* The number of peaks whose x coordinate is at most the width.
InViewCount == Cardinality({i \in 0..(Len(wf_peaks) - 1) : XOf(i) <= width * Unit})

\* C8: every bar the draw function draws has an x coordinate that is a number
\* from 0 to the width, for every array, position in [0, 1] and size.
C8_BarsInsideView ==
  last.op = "drawFunc" =>
    \A j \in 1..Len(drawn.bars) :
      /\ drawn.bars[j].x.kind = "num"
      /\ 0 <= drawn.bars[j].x.v
      /\ drawn.bars[j].x.v <= width * Unit

\* A draw with a negative initial pointer that drew a bar and left a peak
\* undrawn right of the view.
C8_NegativePointerDrawn ==
  /\ last.op = "drawFunc"
  /\ P0 < 0
  /\ Len(drawn.bars) > 0
  /\ drawn.skipped + Len(drawn.bars) < Len(wf_peaks)

\* C9: with a negative initial pointer the draw function skips the smallest
\* number s of leading peaks with P0 + s * GUTTER >= 0, and every peak it
\* draws, of index i, is drawn at x = P0 + i * GUTTER.
C9_SkipsLeastAndKeepsPlaces ==
  (last.op = "drawFunc" /\ P0 < 0) =>
    /\ drawn.skipped = IF LeastVisible > Len(wf_peaks) THEN Len(wf_peaks) ELSE LeastVisible
    /\ \A j \in 1..Len(drawn.bars) :
         drawn.bars[j].x = Num(XOf(drawn.bars[j].index))

\* A draw with a negative initial pointer that is not a multiple of GUTTER.
C9_NegativeOffGrid ==
  /\ last.op = "drawFunc"
  /\ P0 < 0
  /\ (-P0) % (GUTTER * Unit) # 0
  /\ Len(drawn.bars) > 0

\* C10: with an initial pointer >= 0 the draw function skips no peak and draws
\* peak i at x = P0 + i * GUTTER for each i up to the first whose x exceeds the
\* width, and none after it; ten peaks at position 0.5 in a view 100 wide have
\* their first bar at 30.
C10_DrawsFromFirstPeak ==
  (last.op = "drawFunc" /\ P0 >= 0) =>
    /\ drawn.skipped = 0
    /\ Len(drawn.bars) = InViewCount
    /\ \A j \in 1..Len(drawn.bars) :
         /\ drawn.bars[j].index = j - 1
         /\ drawn.bars[j].x = Num(XOf(j - 1))
         /\ XOf(j - 1) <= width * Unit
    /\ (Len(drawn.bars) < Len(wf_peaks) => XOf(Len(drawn.bars)) > width * Unit)
    /\ (Len(wf_peaks) = 10 /\ width = 100 /\ wf_position = Num(Unit \div 2)) =>
         drawn.bars[1].x = Px(30)

\* A draw from an initial pointer >= 0 that drew a bar and stopped at a peak
\* right of the view.
C10_StoppedAtRightEdge ==
  /\ last.op = "drawFunc"
  /\ P0 >= 0
  /\ Len(drawn.bars) > 0
  /\ Len(drawn.bars) < Len(wf_peaks)

\* C11: every bar drawn right of horizCenter has the right colour, and every
\* bar drawn at horizCenter or left of it has the left colour.
C11_ColorZones ==
  last.op = "drawFunc" =>
    \A j \in 1..Len(drawn.bars) :
      drawn.bars[j].color =
        IF drawn.bars[j].x.v > (width * Unit) \div 2 THEN "right" ELSE "left"

\* A draw with a bar exactly at horizCenter and a bar right of it.
C11_BarAtCenter ==
  /\ last.op = "drawFunc"
  /\ \E j \in 1..Len(drawn.bars) : drawn.bars[j].x.v = (width * Unit) \div 2
  /\ \E j \in 1..Len(drawn.bars) : drawn.bars[j].color = "right"

\* Only the first pipeline has been launched: the bus messages handled are
\* those of one session.
OneSession == \A pid \in 2..MaxPipelines : pipelines[pid].state = "none"

\* C12: after every level message of a session with a duration > 0, the
\* visible peaks are the k converted samples received so far, in arrival
\* order, followed only by zeros, for every k.
C12_InterimIsSamplesThenZeros ==
  (last.op = "level" /\ last.duration > 0 /\ OneSession) =>
    LET samples == SinceLastEos(sinceRestart)
        k == Len(samples)
    IN /\ Len(gen_peaks) >= k
       /\ \A i \in 1..Len(gen_peaks) :
            gen_peaks[i] = IF i <= k THEN DbToLinear(samples[i].peak) ELSE 0

\* A level message handled with more samples loaded than the duration has
\* intervals.
C12_SamplesPastDuration ==
  /\ last.op = "level"
  /\ last.duration > 0
  /\ OneSession
  /\ Len(SinceLastEos(sinceRestart)) > CeilIntervals(last.duration)

\* C13: the bus handler never throws, on a level message or on the end of
\* stream, whatever the duration and the number of samples handled before.
C13_HandlersTotal ==
  last.op \in {"level", "element", "eos"} => ~last.threw

\* A level message handled as the first sample past the intervals of the
\* duration.
C13_FirstSamplePastDuration ==
  /\ last.op = "level"
  /\ last.duration > 0
  /\ Len(loadedPeaks) = CeilIntervals(last.duration) + 1

\* C14: a level message of a session whose duration is not positive is
\* appended to the loaded peaks and does nothing else: the handler completes,
\* the visible peaks stay, and nothing is notified, at once or through the
\* throttle.
C14_NoInterimWithoutDuration ==
  [][(last'.op = "level" /\ last'.duration <= 0) =>
       /\ ~last'.threw
       /\ loadedPeaks' =
            Append(loadedPeaks, DbToLinear(sinceRestart'[Len(sinceRestart')].peak))
       /\ gen_peaks' = gen_peaks
       /\ throttle' = throttle
       /\ emitted' = <<>>]_vars

\* A second level message of a session without a duration, handled while
\* peaks published earlier are visible.
C14_SampleWithoutDuration ==
  /\ last.op = "level"
  /\ last.duration <= 0
  /\ Len(loadedPeaks) >= 2
  /\ gen_peaks # <<>>

\* Whether the handler that ran last notified a change of the position.
NotifiedPosition == \E i \in 1..Len(emitted) : emitted[i].sig = "notify::position"

\* C15 as stated: the position setter and a drag update during a drag both
\* notify a change of the position.
C15_EverySetNotifies ==
  /\ last.op = "set position" => NotifiedPosition
  /\ (last.op = "dragUpdate" /\ last.dragging) => NotifiedPosition

\* C15 as amended: the position setter notifies a change of the position and
\* asks for a redraw; a drag update during a drag asks for a redraw and
\* notifies nothing.
C15_SetterNotifiesUpdateDoesNot ==
  /\ last.op = "set position" => (NotifiedPosition /\ queued)
  /\ (last.op = "dragUpdate" /\ last.dragging) => (emitted = <<>> /\ queued)

\* A drag update that moved the position away from the start position.
C15_UpdateMovedPosition ==
  /\ last.op = "dragUpdate"
  /\ last.dragging
  /\ wf_position.kind = "num"
  /\ wf_position # drag_start_position
  /\ wf_peaks # <<>>

\* The generator's own fields: the started flag and the two arrays.
GeneratorState == [started |-> started, loadedPeaks |-> loadedPeaks, peaks |-> gen_peaks]

\* C16: in the state restart() leaves, from whatever state it was called, a
\* second restart() changes neither the started flag nor the loaded peaks nor
\* the visible peaks: twice in a row gives what once gives.
C16_RestartIdempotent ==
  last.op = "restart" => RestartState = GeneratorState

\* restart() called with a pipeline playing, and the throttle holding a call
\* of an interim array published before.
C16_RestartOverSession ==
  /\ last.op = "restart"
  /\ throttle.pending
  /\ \E pid \in 1..MaxPipelines : pipelines[pid].state = "PLAYING"

\* C17: an array read from the peaks property keeps the contents and the
\* length it had when it was read, whatever the generator handles afterwards.
C17_SnapshotsNeverChange == held.some => held.value = held.taken

\* restart() called while a reader holds the generator's array, read with
\* peaks in it.
C17_RestartOverHeldArray ==
  /\ last.op = "restart"
  /\ held.some
  /\ held.live
  /\ held.taken # <<>>

\* C18: dragUpdate called while no drag is in progress (before any dragBegin,
\* or after dragEnd and before the next dragBegin) leaves the position as it
\* was and asks for no redraw.
C18_IdleUpdateIsNoOp ==
  [][(last'.op = "dragUpdate" /\ (beginCount = 0 \/ drag_start_position = Null))
       => /\ wf_position' = wf_position
          /\ wf_peaks' = wf_peaks
          /\ drag_start_position' = drag_start_position
          /\ queued' = FALSE
          /\ emitted' = <<>>]_vars

\* dragUpdate with a non-zero offset handled after a drag ended, over peaks.
C18_UpdateAfterEnd ==
  /\ last.op = "dragUpdate"
  /\ ~last.dragging
  /\ last.arg # Px(0)
  /\ changedCount > 0
  /\ beginCount > 0
  /\ wf_peaks # <<>>
  /\ ~queued

\* clamp(start - offset_x / (length * GUTTER), 0, 1) in the arithmetic of
\* JavaScript numbers: the difference in whole units of 1 / Unit for a peak
\* array that is not empty, an infinity clamped to a bound or NaN for an empty
\* one.
ClampedDrag(start, px, length) ==
  IF start.kind = "nan" THEN NaN
  ELSE IF length = 0
    THEN (IF px = 0 THEN NaN ELSE IF px > 0 THEN Num(0) ELSE Px(1))
  ELSE LET after == start.v - (px * Unit) \div (length * GUTTER)
       IN Num(IF after > Unit THEN Unit ELSE IF after < 0 THEN 0 ELSE after)

\* The start position is the position at dragBegin and nothing but dragBegin
\* and dragEnd writes it; a dragUpdate during a drag sets the position to the
\* clamped difference of the start position and the scaled offset.
DragLaw ==
  /\ (last'.op = "dragBegin" => drag_start_position' = wf_position)
  /\ (last'.op \in {"dragUpdate", "set position", "set peaks"}
        => drag_start_position' = drag_start_position)
  /\ ((last'.op = "dragUpdate" /\ IsDragging)
        => wf_position' = ClampedDrag(drag_start_position, last'.arg.v \div Unit,
                                      Len(wf_peaks)))

\* C19 as stated: the drag law, and the position-changed signal of dragEnd
\* carries the position the last dragUpdate of the drag computed.
C19_EndCarriesLastUpdate ==
  [][/\ DragLaw
     /\ ((last'.op = "dragEnd" /\ IsDragging /\ dragged # Null)
           => emitted' = <<Signal("position-changed", dragged)>>)]_vars

\* C19: the drag law, and the position-changed signal of dragEnd carries the
\* position at that time: the position the last dragUpdate computed when
\* dragEnd follows it, the value written when the position was written since.
C19_EndCarriesCurrentPosition ==
  [][/\ DragLaw
     /\ (last'.op = "dragEnd"
           => /\ emitted' = <<Signal("position-changed", wf_position)>>
              /\ wf_position' = wf_position
              /\ ((last.op = "dragUpdate" /\ last.dragging) => wf_position = dragged)
              /\ (last.op = "set position" => wf_position = last.arg))]_vars

\* dragEnd handled in a drag over peaks whose last dragUpdate computed a
\* position strictly inside (0, 1), after the position was written to another
\* value: the signal carries the written value.
C19_EndAfterWrite ==
  /\ last.op = "dragEnd"
  /\ last.dragging
  /\ wf_peaks # <<>>
  /\ dragged.kind = "num"
  /\ dragged.v > 0
  /\ dragged.v < Unit
  /\ emitted = <<Signal("position-changed", wf_position)>>
  /\ wf_position # dragged

\* C20: the end of stream of a pipeline launched before another one (the late
\* end of stream of an earlier session) neither clears nor publishes the
\* buffer the later session loads into, and notifies nobody.
C20_LateEosIsolated ==
  [][\A pid \in 1..MaxPipelines :
       (/\ pipelines[pid].state = "PLAYING"
        /\ pipelines'[pid].state # "PLAYING"
        /\ \E q \in (pid + 1)..MaxPipelines : pipelines[q].state # "none")
         => /\ loadedPeaks' = loadedPeaks
            /\ gen_peaks' = gen_peaks
            /\ emitted' = <<>>]_vars

\* The first pipeline's end of stream handled while the second one is still
\* playing: it published peaks and notified.
C20_EosOfEarlierPipeline ==
  /\ last.op = "eos"
  /\ pipelines[1] = StoppedPipeline
  /\ pipelines[2].state = "PLAYING"
  /\ gen_peaks # <<>>
  /\ emitted # <<>>

====
